---------------------------- MODULE Spec2Model ----------------------------
(***************************************************************************)
(* A model of the retrieval core of the TestAI service: the token          *)
(* estimator (utils/tokenEstimator.js), the paragraph chunker, the keyword *)
(* scorer and the context assembler (utils/chunking.js), over a knowledge  *)
(* base directory that the upload and delete routes change.                *)
(*                                                                         *)
(* A JavaScript string is modelled as a sequence of one-character strings, *)
(* so that length, substring, split, trim and search are computed as the   *)
(* code computes them.                                                     *)
(***************************************************************************)
EXTENDS Integers, Sequences, FiniteSets

VARIABLES
  knowledgeBase,  \* the knowledge-base directory: <<[name, content], ...>> in listing order
  safeLimit,      \* the configured SAFE_CONTEXT_LIMIT of this deployment
  call,           \* the arguments of the latest getRelevantContext call
  result,         \* what that call returned
  prevResult,     \* what the same call returned just before, if it was made twice
  fnArgs,         \* the arguments of a direct call of a function
  fnResult,       \* what the direct call returned
  examples,       \* the training examples in user-examples.json
  tally,          \* the adds and deletes answered with success since the last clear
  reply,          \* the latest response of the training router
  requests,       \* the /chat-with-docs requests: where each handler stands
  uploading       \* the upload of a PDF that waits for the text extraction

trainingVars == <<examples, tally, reply>>
handlerVars == <<requests, uploading>>

vars == <<knowledgeBase, safeLimit, call, result, prevResult, fnArgs, fnResult,
          examples, tally, reply, requests, uploading>>

\* before a call has been made or has returned
NotYet == [made |-> FALSE]

\* the /chat-with-docs requests that can be in flight together
RequestIds == {1, 2}

\* no request of the training router has been made
IdleTraining ==
  /\ examples = <<>>
  /\ tally = [added |-> 0, deleted |-> 0]
  /\ reply = NotYet

IdleRequest == [pc |-> "idle"]

\* no /chat-with-docs request and no upload is in flight
IdleHandlers ==
  /\ requests = [r \in RequestIds |-> IdleRequest]
  /\ uploading = NotYet

----------------------------------------------------------------------------
(* Bounds of the model. *)

\* longest text handed to chunkText directly
MaxTextLen == 7
\* largest maxChunkSize handed to chunkText directly
MaxChunkArg == 3
\* longest chunk text handed to scoreChunkRelevance directly
MaxScoreTextLen == 4
\* largest topK of a retrieval
MaxTopK == 4
\* longest text handed to estimateTokens and truncateToTokenLimit directly
MaxTokenTextLen == 8
\* largest maxTokens handed to truncateToTokenLimit directly
MaxTokensArg == 3
\* most examples user-examples.json holds
MaxExamples == 2
\* most adds, and most deletes, that are answered with success between two clears
MaxTallied == 3
\* the maxChunkSize of a retrieval that is not the default
SmallChunkSize == 7

----------------------------------------------------------------------------
(* JavaScript string primitives. *)

NL == "\n"

\* String.prototype.trim strips these from both ends
Whitespace == {" ", "\n", "\t", "\r"}

UpperCase == <<"A", "B", "C", "D", "E", "F", "G", "H", "I", "J", "K", "L", "M",
               "N", "O", "P", "Q", "R", "S", "T", "U", "V", "W", "X", "Y", "Z">>
LowerCase == <<"a", "b", "c", "d", "e", "f", "g", "h", "i", "j", "k", "l", "m",
               "n", "o", "p", "q", "r", "s", "t", "u", "v", "w", "x", "y", "z">>
DigitChars == <<"0", "1", "2", "3", "4", "5", "6", "7", "8", "9">>

Range(s) == {s[i] : i \in DOMAIN s}

\* the characters the regular expression class \w matches
WordChars == Range(UpperCase) \cup Range(LowerCase) \cup Range(DigitChars) \cup {"_"}

UpperChars == Range(UpperCase)

\* the lower-case letter of each upper-case letter
LowerOf == [c \in UpperChars |-> LowerCase[CHOOSE i \in DOMAIN UpperCase : UpperCase[i] = c]]

LowerChar(c) == IF c \in UpperChars THEN LowerOf[c] ELSE c

\* String.prototype.toLowerCase
toLowerCase(s) == [i \in DOMAIN s |-> LowerChar(s[i])]

Min(a, b) == IF a < b THEN a ELSE b
Max(a, b) == IF a > b THEN a ELSE b

\* String.prototype.substring(from, to) with 0-based, end-exclusive indices;
\* arguments below 0 or above the length are clamped
substring(s, from, to) ==
  LET f == Max(0, Min(from, Len(s)))
      t == Max(0, Min(to, Len(s)))
  IN SubSeq(s, Min(f, t) + 1, Max(f, t))

\* String.prototype.trim
trim(s) ==
  LET keep == {i \in DOMAIN s : s[i] \notin Whitespace}
  IN IF keep = {} THEN <<>>
     ELSE SubSeq(s, CHOOSE i \in keep : \A j \in keep : i <= j,
                    CHOOSE i \in keep : \A j \in keep : i >= j)

\* whether w occurs in s at (1-based) position i
OccursAt(s, w, i) == i + Len(w) - 1 <= Len(s) /\ SubSeq(s, i, i + Len(w) - 1) = w

\* String.prototype.includes
includes(s, w) == \E i \in 1..(Len(s) + 1) : OccursAt(s, w, i)

\* Number -> decimal string, as a template literal prints a non-negative integer
RECURSIVE NumberToString(_)
NumberToString(n) ==
  IF n < 10 THEN <<DigitChars[n + 1]>>
  ELSE NumberToString(n \div 10) \o <<DigitChars[(n % 10) + 1]>>

\* the first position >= i of s that holds no newline (Len(s) + 1 if none)
RECURSIVE EndOfNewlines(_, _)
EndOfNewlines(s, i) ==
  IF i <= Len(s) /\ s[i] = NL THEN EndOfNewlines(s, i + 1) ELSE i

\* text.split(/\n\n+/) from position i on: the pieces between maximal runs of
\* two or more newlines
RECURSIVE SplitFrom(_, _)
SplitFrom(s, i) ==
  LET ahead == {p \in i..(Len(s) - 1) : s[p] = NL /\ s[p + 1] = NL}
  IN IF ahead = {} THEN <<SubSeq(s, i, Len(s))>>
     ELSE LET next == CHOOSE p \in ahead : \A q \in ahead : p <= q
          IN <<SubSeq(s, i, next - 1)>> \o SplitFrom(s, EndOfNewlines(s, next))

SplitParagraphs(text) == SplitFrom(text, 1)

----------------------------------------------------------------------------
(* utils/tokenEstimator.js *)

\* estimateTokens rounding down
estimateTokens_RoundsDown(text) ==
  IF text = <<>> THEN 0 ELSE (2 * Len(text)) \div 7

\* Math.ceil(text.length / 3.5), and 0 for the empty string
estimateTokens(text) ==
  IF text = <<>> THEN 0 ELSE (2 * Len(text) + 6) \div 7

TruncationMarker ==
  <<"\n", "\n", "[", "C", "o", "n", "t", "e", "n", "t", " ", "t", "r", "u", "n",
    "c", "a", "t", "e", "d", " ", "t", "o", " ", "f", "i", "t", " ", "t", "o",
    "k", "e", "n", " ", "l", "i", "m", "i", "t", "]">>

truncateToTokenLimit(text, maxTokens) ==
  IF estimateTokens(text) <= maxTokens THEN text
  ELSE LET maxChars == (7 * maxTokens) \div 2   \* Math.floor(maxTokens * 3.5)
       IN substring(text, 0, maxChars) \o TruncationMarker

SAFE_CONTEXT_LIMIT == 14000
SYSTEM_PROMPT_TOKENS == 500
USER_MESSAGE_TOKENS == 200
RESPONSE_TOKENS == 1000

\* the budget for a deployment whose SAFE_CONTEXT_LIMIT is safe
calculateAvailableContextTokens(safe) ==
  safe - SYSTEM_PROMPT_TOKENS - USER_MESSAGE_TOKENS - RESPONSE_TOKENS

----------------------------------------------------------------------------
(* utils/chunking.js: chunkText *)

ParagraphSeparator == <<"\n", "\n">>
Ellipsis == <<".", ".", ".">>
PREVIEW_LENGTH == 80
\* maxChunkSize = 600
DEFAULT_CHUNK_SIZE == 600

\* the object pushed onto chunks
MakeChunk(currentChunk, chunkStartPosition, currentPosition) ==
  [content   |-> trim(currentChunk),
   startChar |-> chunkStartPosition,
   endChar   |-> currentPosition,
   preview   |-> substring(trim(currentChunk), 0, PREVIEW_LENGTH) \o Ellipsis]

\* ChunkStep with the flush forgetting the paragraph that caused it
ChunkStep_DropsOnFlush(st, paragraph, maxChunkSize) ==
  LET trimmedParagraph == trim(paragraph)
      advanced == st.currentPosition + Len(paragraph) + 2
  IN IF trimmedParagraph = <<>>
     THEN [st EXCEPT !.currentPosition = advanced]
     ELSE IF Len(st.currentChunk) + Len(trimmedParagraph) > maxChunkSize
             /\ Len(st.currentChunk) > 0
          THEN [chunks             |-> Append(st.chunks,
                                         [content   |-> trim(st.currentChunk),
                                          startChar |-> st.chunkStartPosition,
                                          endChar   |-> st.currentPosition,
                                          preview   |-> trim(st.currentChunk)]),
                currentChunk       |-> <<>>,
                chunkStartPosition |-> st.currentPosition,
                currentPosition    |-> advanced]
          ELSE [st EXCEPT
                  !.currentChunk = @ \o (IF @ # <<>> THEN <<"\n", "\n">> ELSE <<>>)
                                     \o trimmedParagraph,
                  !.currentPosition = advanced]

\* ChunkStep with every paragraph added to the current chunk, whatever its size
ChunkStep_NeverFlushes(st, paragraph, maxChunkSize) ==
  LET trimmedParagraph == trim(paragraph)
      advanced == st.currentPosition + Len(paragraph) + 2
  IN IF trimmedParagraph = <<>>
     THEN [st EXCEPT !.currentPosition = advanced]
     ELSE [st EXCEPT
             !.currentChunk = @ \o (IF @ # <<>> THEN <<"\n", "\n">> ELSE <<>>)
                                \o trimmedParagraph,
             !.currentPosition = advanced]

\* ChunkStep flushing the current chunk even when it is empty
ChunkStep_FlushesEmpty(st, paragraph, maxChunkSize) ==
  LET trimmedParagraph == trim(paragraph)
      advanced == st.currentPosition + Len(paragraph) + 2
  IN IF trimmedParagraph = <<>>
     THEN [st EXCEPT !.currentPosition = advanced]
     ELSE IF Len(st.currentChunk) + Len(trimmedParagraph) > maxChunkSize
          THEN [chunks             |-> Append(st.chunks,
                                         [content   |-> trim(st.currentChunk),
                                          startChar |-> st.chunkStartPosition,
                                          endChar   |-> st.currentPosition,
                                          preview   |-> trim(st.currentChunk)]),
                currentChunk       |-> trimmedParagraph,
                chunkStartPosition |-> st.currentPosition,
                currentPosition    |-> advanced]
          ELSE [st EXCEPT
                  !.currentChunk = @ \o (IF @ # <<>> THEN <<"\n", "\n">> ELSE <<>>)
                                     \o trimmedParagraph,
                  !.currentPosition = advanced]

\* ChunkStep starting the new chunk behind the paragraph that opens it
ChunkStep_StartsAfter(st, paragraph, maxChunkSize) ==
  LET trimmedParagraph == trim(paragraph)
      advanced == st.currentPosition + Len(paragraph) + 2
  IN IF trimmedParagraph = <<>>
     THEN [st EXCEPT !.currentPosition = advanced]
     ELSE IF Len(st.currentChunk) + Len(trimmedParagraph) > maxChunkSize
             /\ Len(st.currentChunk) > 0
          THEN [chunks             |-> Append(st.chunks,
                                         [content   |-> trim(st.currentChunk),
                                          startChar |-> st.chunkStartPosition,
                                          endChar   |-> st.currentPosition,
                                          preview   |-> trim(st.currentChunk)]),
                currentChunk       |-> trimmedParagraph,
                chunkStartPosition |-> advanced,
                currentPosition    |-> advanced]
          ELSE [st EXCEPT
                  !.currentChunk = @ \o (IF @ # <<>> THEN <<"\n", "\n">> ELSE <<>>)
                                     \o trimmedParagraph,
                  !.currentPosition = advanced]

\* one pass of the for loop over the paragraphs, on the loop's variables
ChunkStep(st, paragraph, maxChunkSize) ==
  LET trimmedParagraph == trim(paragraph)
      advanced == st.currentPosition + Len(paragraph) + 2
  IN IF trimmedParagraph = <<>>
     THEN [st EXCEPT !.currentPosition = advanced]
     ELSE IF Len(st.currentChunk) + Len(trimmedParagraph) > maxChunkSize
             /\ Len(st.currentChunk) > 0
          THEN [chunks             |-> Append(st.chunks,
                                         MakeChunk(st.currentChunk,
                                                   st.chunkStartPosition,
                                                   st.currentPosition)),
                currentChunk       |-> trimmedParagraph,
                chunkStartPosition |-> st.currentPosition,
                currentPosition    |-> advanced]
          ELSE [st EXCEPT
                  !.currentChunk = @ \o (IF @ # <<>> THEN ParagraphSeparator ELSE <<>>)
                                     \o trimmedParagraph,
                  !.currentPosition = advanced]

RECURSIVE ChunkLoop(_, _, _, _)
ChunkLoop(st, paragraphs, i, maxChunkSize) ==
  IF i > Len(paragraphs) THEN st
  ELSE ChunkLoop(ChunkStep(st, paragraphs[i], maxChunkSize), paragraphs, i + 1, maxChunkSize)

chunkText(text, maxChunkSize) ==
  LET final == ChunkLoop([chunks |-> <<>>, currentChunk |-> <<>>,
                          chunkStartPosition |-> 0, currentPosition |-> 0],
                         SplitParagraphs(text), 1, maxChunkSize)
  IN IF trim(final.currentChunk) # <<>>
     THEN Append(final.chunks,
                 MakeChunk(final.currentChunk, final.chunkStartPosition,
                           final.currentPosition))
     ELSE final.chunks

----------------------------------------------------------------------------
(* utils/chunking.js: scoreChunkRelevance *)

stopWords ==
  { <<"t", "h", "e">>, <<"a">>, <<"a", "n">>, <<"a", "n", "d">>, <<"o", "r">>,
    <<"b", "u", "t">>, <<"i", "n">>, <<"o", "n">>, <<"a", "t">>, <<"t", "o">>,
    <<"f", "o", "r">>, <<"o", "f">>, <<"w", "i", "t", "h">>, <<"i", "s">>,
    <<"a", "r", "e">>, <<"w", "a", "s">>, <<"w", "e", "r", "e">>,
    <<"w", "h", "a", "t">>, <<"h", "o", "w">>, <<"w", "h", "y">>,
    <<"w", "h", "e", "n">>, <<"w", "h", "e", "r", "e">>, <<"w", "h", "o">>,
    <<"w", "h", "i", "c", "h">>, <<"c", "a", "n">>, <<"c", "o", "u", "l", "d">>,
    <<"s", "h", "o", "u", "l", "d">>, <<"w", "o", "u", "l", "d">>, <<"d", "o">>,
    <<"d", "o", "e", "s">>, <<"d", "i", "d">>, <<"h", "a", "v", "e">>,
    <<"h", "a", "s">>, <<"h", "a", "d">>, <<"m", "y">>, <<"i">>, <<"m", "e">>,
    <<"y", "o", "u">>, <<"a", "b", "o", "u", "t">>, <<"t", "e", "l", "l">>,
    <<"e", "x", "p", "l", "a", "i", "n">> }

\* the first position >= i of s that holds a word character (Len(s) + 1 if none)
RECURSIVE EndOfNonWord(_, _)
EndOfNonWord(s, i) ==
  IF i <= Len(s) /\ s[i] \notin WordChars THEN EndOfNonWord(s, i + 1) ELSE i

\* s.split(/\W+/): the pieces between maximal runs of non-word characters; a
\* string that starts or ends with such a run yields an empty first or last piece
RECURSIVE SplitWordsFrom(_, _, _)
SplitWordsFrom(s, i, cur) ==
  IF i > Len(s) THEN <<cur>>
  ELSE IF s[i] \notin WordChars
       THEN <<cur>> \o SplitWordsFrom(s, EndOfNonWord(s, i), <<>>)
       ELSE SplitWordsFrom(s, i + 1, Append(cur, s[i]))

\* queryWords without the stop-word filter
queryWords_KeepsStopWords(query) ==
  SelectSeq(SplitWordsFrom(toLowerCase(query), 1, <<>>), LAMBDA word : Len(word) > 2)

\* the keywords of a query, repeated as often as the query repeats them
queryWords(query) ==
  SelectSeq(SplitWordsFrom(toLowerCase(query), 1, <<>>),
            LAMBDA word : Len(word) > 2 /\ word \notin stopWords)

\* chunkLower.match(new RegExp(word, 'gi')): the matches of a global regular
\* expression are found left to right and do not overlap
RECURSIVE CountMatches(_, _, _)
CountMatches(s, word, i) ==
  LET ahead == {p \in i..(Len(s) - Len(word) + 1) : OccursAt(s, word, p)}
  IN IF ahead = {} THEN 0
     ELSE LET next == CHOOSE p \in ahead : \A q \in ahead : p <= q
          IN 1 + CountMatches(s, word, next + Len(word))

BONUS_WINDOW == 200

\* KeywordScore with the match points subtracted instead of added
KeywordScore_Subtracts(chunkLower, word) ==
  (0 - CountMatches(chunkLower, word, 1) * 10)
  + (IF includes(substring(chunkLower, 0, 200), word) THEN 5 ELSE 0)

\* KeywordScore with the bonus given for the keyword anywhere in the chunk
KeywordScore_NoWindow(chunkLower, word) ==
  CountMatches(chunkLower, word, 1) * 10
  + (IF includes(chunkLower, word) THEN 5 ELSE 0)

\* what one pass of the loop over queryWords adds to score
KeywordScore(chunkLower, word) ==
  CountMatches(chunkLower, word, 1) * 10
  + (IF includes(substring(chunkLower, 0, BONUS_WINDOW), word) THEN 5 ELSE 0)

RECURSIVE SumKeywordScores(_, _, _)
SumKeywordScores(chunkLower, words, i) ==
  IF i > Len(words) THEN 0
  ELSE KeywordScore(chunkLower, words[i]) + SumKeywordScores(chunkLower, words, i + 1)

scoreChunkRelevance(chunk, query) ==
  SumKeywordScores(toLowerCase(chunk), queryWords(query), 1)

----------------------------------------------------------------------------
(* utils/chunking.js: getRelevantContext *)

ContextHeader ==
  <<"\n", "\n", "=", "=", "=", " ", "R", "E", "L", "E", "V", "A", "N", "T", " ", "T", "H", "E", "R", "A", "P", "E", "U",
    "T", "I", "C", " ", "R", "E", "S", "O", "U", "R", "C", "E", "S", " ", "&",
    " ", "P", "R", "O", "T", "O", "C", "O", "L", "S", " ", "=", "=", "=", "\n">>

ExcerptPrefix == <<"\n", "-", "-", "-", " ", "E", "x", "c", "e", "r", "p", "t", " ">>
ExcerptFrom == <<" ", "f", "r", "o", "m", " ">>
ExcerptRelevance == <<" ", "(", "R", "e", "l", "e", "v", "a", "n", "c", "e", ":", " ">>
ExcerptSuffix == <<")", " ", "-", "-", "-", "\n">>

\* `\n--- Excerpt ${i + 1} from ${chunk.filename} (Relevance: ${chunk.score}) ---\n`
chunkHeader(i, chunk) ==
  ExcerptPrefix \o NumberToString(i + 1) \o ExcerptFrom \o chunk.filename
  \o ExcerptRelevance \o NumberToString(chunk.score) \o ExcerptSuffix

\* ScoredChunksOf with chunks that score 0 pushed as well
ScoredChunksOf_KeepsZero(file, query, maxChunkSize) ==
  LET chunks == chunkText(file.content, maxChunkSize)
  IN [idx \in DOMAIN chunks |->
        [content     |-> chunks[idx].content,
         score       |-> scoreChunkRelevance(chunks[idx].content, query),
         filename    |-> file.name,
         tokens      |-> estimateTokens(chunks[idx].content),
         startChar   |-> chunks[idx].startChar,
         endChar     |-> chunks[idx].endChar,
         chunkIndex  |-> idx,
         totalChunks |-> Len(chunks),
         preview     |-> chunks[idx].preview]]

\* the chunks of one file that score above 0, as pushed onto allChunks
ScoredChunksOf(file, query, maxChunkSize) ==
  LET chunks == chunkText(file.content, maxChunkSize)
      scored == [idx \in DOMAIN chunks |->
                   [content     |-> chunks[idx].content,
                    score       |-> scoreChunkRelevance(chunks[idx].content, query),
                    filename    |-> file.name,
                    tokens      |-> estimateTokens(chunks[idx].content),
                    startChar   |-> chunks[idx].startChar,
                    endChar     |-> chunks[idx].endChar,
                    chunkIndex  |-> idx,
                    totalChunks |-> Len(chunks),
                    preview     |-> chunks[idx].preview]]
  IN SelectSeq(scored, LAMBDA c : c.score > 0)

\* allChunks after the loop over the files, before it is sorted
RECURSIVE CollectChunks(_, _, _, _)
CollectChunks(files, f, query, maxChunkSize) ==
  IF f > Len(files) THEN <<>>
  ELSE ScoredChunksOf(files[f], query, maxChunkSize)
       \o CollectChunks(files, f + 1, query, maxChunkSize)

\* InsertByScore with c put in ahead of the chunks of its own score
InsertByScore_TiesFirst(sorted, c) ==
  LET ahead == Cardinality({j \in DOMAIN sorted : sorted[j].score > c.score})
  IN SubSeq(sorted, 1, ahead) \o <<c>> \o SubSeq(sorted, ahead + 1, Len(sorted))

\* sorted (descending by score) with c put in behind every chunk that scores
\* at least c.score: Array.prototype.sort is stable
InsertByScore(sorted, c) ==
  LET ahead == Cardinality({j \in DOMAIN sorted : sorted[j].score >= c.score})
  IN SubSeq(sorted, 1, ahead) \o <<c>> \o SubSeq(sorted, ahead + 1, Len(sorted))

\* allChunks.sort((a, b) => b.score - a.score)
RECURSIVE SortByScore(_, _)
SortByScore(chunks, n) ==
  IF n = 0 THEN <<>> ELSE InsertByScore(SortByScore(chunks, n - 1), chunks[n])

\* SelectLoop without the test of the chunk against the available tokens
RECURSIVE SelectLoop_NoBudgetTest(_, _, _, _, _)
SelectLoop_NoBudgetTest(st, allChunks, i, topK, availableTokens) ==
  IF ~(i < Min(topK, Len(allChunks))) THEN st
  ELSE LET chunk == allChunks[i + 1]
           header == chunkHeader(i, chunk)
           chunkTokens == chunk.tokens + estimateTokens(header)
       IN SelectLoop_NoBudgetTest(
            [context        |-> st.context \o header \o chunk.content \o <<NL>>,
             totalTokens    |-> st.totalTokens + chunkTokens,
             selectedChunks |-> Append(st.selectedChunks, chunk)],
            allChunks, i + 1, topK, availableTokens)

\* SelectLoop going on to the next chunk, instead of stopping, when a chunk
\* does not fit
RECURSIVE SelectLoop_SkipsOver(_, _, _, _, _)
SelectLoop_SkipsOver(st, allChunks, i, topK, availableTokens) ==
  IF ~(i < Min(topK, Len(allChunks))) THEN st
  ELSE LET chunk == allChunks[i + 1]
           header == chunkHeader(i, chunk)
           chunkTokens == chunk.tokens + estimateTokens(header)
       IN IF st.totalTokens + chunkTokens > availableTokens
          THEN SelectLoop_SkipsOver(st, allChunks, i + 1, topK, availableTokens)
          ELSE SelectLoop_SkipsOver(
                 [context        |-> st.context \o header \o chunk.content \o <<NL>>,
                  totalTokens    |-> st.totalTokens + chunkTokens,
                  selectedChunks |-> Append(st.selectedChunks, chunk)],
                 allChunks, i + 1, topK, availableTokens)

\* SelectLoop going through every candidate, whatever topK is
RECURSIVE SelectLoop_IgnoresTopK(_, _, _, _, _)
SelectLoop_IgnoresTopK(st, allChunks, i, topK, availableTokens) ==
  IF ~(i < Len(allChunks)) THEN st
  ELSE LET chunk == allChunks[i + 1]
           header == chunkHeader(i, chunk)
           chunkTokens == chunk.tokens + estimateTokens(header)
       IN IF st.totalTokens + chunkTokens > availableTokens
          THEN st
          ELSE SelectLoop_IgnoresTopK(
                 [context        |-> st.context \o header \o chunk.content \o <<NL>>,
                  totalTokens    |-> st.totalTokens + chunkTokens,
                  selectedChunks |-> Append(st.selectedChunks, chunk)],
                 allChunks, i + 1, topK, availableTokens)

\* SelectLoop testing the chunk alone, not the total, against the budget
RECURSIVE SelectLoop_TestsChunkAlone(_, _, _, _, _)
SelectLoop_TestsChunkAlone(st, allChunks, i, topK, availableTokens) ==
  IF ~(i < Min(topK, Len(allChunks))) THEN st
  ELSE LET chunk == allChunks[i + 1]
           header == chunkHeader(i, chunk)
           chunkTokens == chunk.tokens + estimateTokens(header)
       IN IF chunkTokens > availableTokens
          THEN st
          ELSE SelectLoop_TestsChunkAlone(
                 [context        |-> st.context \o header \o chunk.content \o <<NL>>,
                  totalTokens    |-> st.totalTokens + chunkTokens,
                  selectedChunks |-> Append(st.selectedChunks, chunk)],
                 allChunks, i + 1, topK, availableTokens)

\* the selection loop from its pass i (0-based) on, on the loop's variables
RECURSIVE SelectLoop(_, _, _, _, _)
SelectLoop(st, allChunks, i, topK, availableTokens) ==
  IF ~(i < Min(topK, Len(allChunks))) THEN st
  ELSE LET chunk == allChunks[i + 1]
           header == chunkHeader(i, chunk)
           chunkTokens == chunk.tokens + estimateTokens(header)
       IN IF st.totalTokens + chunkTokens > availableTokens
          THEN st
          ELSE SelectLoop([context        |-> st.context \o header \o chunk.content \o <<NL>>,
                           totalTokens    |-> st.totalTokens + chunkTokens,
                           selectedChunks |-> Append(st.selectedChunks, chunk)],
                          allChunks, i + 1, topK, availableTokens)

\* context, totalTokens and selectedChunks when the selection loop has ended
Selection(allChunks, topK, availableTokens) ==
  SelectLoop([context        |-> ContextHeader,
              totalTokens    |-> estimateTokens(ContextHeader),
              selectedChunks |-> <<>>],
             allChunks, 0, topK, availableTokens)

SourceOf(c) ==
  [filename |-> c.filename, chunkIndex |-> c.chunkIndex, totalChunks |-> c.totalChunks,
   startChar |-> c.startChar, endChar |-> c.endChar, preview |-> c.preview]

\* Assemble with the failsafe truncating the context but leaving totalTokens as it was
Assemble_NoClamp(allChunks, topK, availableTokens) ==
  LET sel == Selection(SortByScore(allChunks, Len(allChunks)), topK, availableTokens)
  IN [context    |-> IF sel.totalTokens > availableTokens
                     THEN truncateToTokenLimit(sel.context, availableTokens)
                     ELSE sel.context,
      tokenCount |-> sel.totalTokens,
      chunksUsed |-> Len(sel.selectedChunks),
      sources    |-> [j \in DOMAIN sel.selectedChunks |-> SourceOf(sel.selectedChunks[j])]]

\* the part of getRelevantContext that follows the loop over the files
Assemble(allChunks, topK, availableTokens) ==
  LET sel == Selection(SortByScore(allChunks, Len(allChunks)), topK, availableTokens)
      failsafe == sel.totalTokens > availableTokens
  IN [context    |-> IF failsafe
                     THEN truncateToTokenLimit(sel.context, availableTokens)
                     ELSE sel.context,
      tokenCount |-> IF failsafe THEN availableTokens ELSE sel.totalTokens,
      chunksUsed |-> Len(sel.selectedChunks),
      sources    |-> [j \in DOMAIN sel.selectedChunks |-> SourceOf(sel.selectedChunks[j])]]

\* files is the directory as listed and read; the early return carries no sources
getRelevantContext(files, query, topK, maxChunkSize, availableTokens) ==
  IF Len(files) = 0
  THEN [context |-> <<>>, tokenCount |-> 0, chunksUsed |-> 0]
  ELSE Assemble(CollectChunks(files, 1, query, maxChunkSize), topK, availableTokens)

----------------------------------------------------------------------------
(* Direct calls of chunkText on every short text. *)

ChunkAlphabet == {"a", " ", "\n"}

TextsUpTo(alphabet, n) == UNION {[1..k -> alphabet] : k \in 0..n}

IdleService ==
  /\ knowledgeBase = <<>>
  /\ safeLimit = SAFE_CONTEXT_LIMIT
  /\ call = NotYet
  /\ result = NotYet
  /\ prevResult = NotYet
  /\ IdleTraining
  /\ IdleHandlers

\* a paragraph of 500 characters, and one of 100
ScenarioParagraph == [i \in 1..500 |-> "a"]
ShortParagraph == [i \in 1..100 |-> "a"]

\* documents of two paragraphs, chunked with the default maxChunkSize
TwoLongParagraphs == ScenarioParagraph \o ParagraphSeparator \o ScenarioParagraph
LongAndShort == ScenarioParagraph \o ParagraphSeparator \o ShortParagraph

ScenarioCalls ==
  [text : {TwoLongParagraphs, LongAndShort}, maxChunkSize : {DEFAULT_CHUNK_SIZE}]

InitChunk ==
  /\ IdleService
  /\ fnArgs \in [text : TextsUpTo(ChunkAlphabet, MaxTextLen), maxChunkSize : 0..MaxChunkArg]
                 \cup ScenarioCalls
  /\ fnResult = NotYet

CallChunkText ==
  /\ ~fnResult.made
  /\ fnResult' = [made |-> TRUE, chunks |-> chunkText(fnArgs.text, fnArgs.maxChunkSize)]
  /\ UNCHANGED <<knowledgeBase, safeLimit, call, result, prevResult, fnArgs, trainingVars, handlerVars>>

NextChunk == CallChunkText

SpecChunk == InitChunk /\ [][NextChunk]_vars

\* the non-empty trimmed paragraphs of a text, in order
NonEmptyParagraphs(text) ==
  LET ps == SplitParagraphs(text)
  IN SelectSeq([i \in DOMAIN ps |-> trim(ps[i])], LAMBDA p : p # <<>>)

\* the contents of the chunks, joined with the paragraph separator
RECURSIVE JoinContents(_, _)
JoinContents(chunks, i) ==
  IF i > Len(chunks) THEN <<>>
  ELSE chunks[i].content
       \o (IF i < Len(chunks) THEN ParagraphSeparator ELSE <<>>)
       \o JoinContents(chunks, i + 1)

\* C4 (as claimed): every chunk of chunkText has content length at most
\* maxChunkSize, unless the chunk is one single paragraph longer than maxChunkSize.
C4_ChunkSizeBound ==
  fnResult.made =>
    \A i \in DOMAIN fnResult.chunks :
      LET content == fnResult.chunks[i].content
      IN \/ Len(content) <= fnArgs.maxChunkSize
         \/ Len(SplitParagraphs(content)) = 1

\* C5: the chunk contents of chunkText, joined in order with the blank-line
\* separator and split again at blank lines, are exactly the non-empty trimmed
\* paragraphs of the text in their original order (none dropped, duplicated or
\* reordered); there are no chunks exactly when there is no such paragraph.
C5_ChunkCoverage ==
  fnResult.made =>
    LET paragraphs == NonEmptyParagraphs(fnArgs.text)
        chunks == fnResult.chunks
    IN /\ (chunks = <<>>) <=> (paragraphs = <<>>)
       /\ chunks # <<>> => SplitParagraphs(JoinContents(chunks, 1)) = paragraphs

\* C5 witness: a text of three paragraphs was cut into at least two chunks, one
\* of them holding two paragraphs.
C5_Witness ==
  /\ fnResult.made
  /\ Len(NonEmptyParagraphs(fnArgs.text)) = 3
  /\ Len(fnResult.chunks) = 2

----------------------------------------------------------------------------
(* Direct calls of scoreChunkRelevance: a chunk text is scored, one more     *)
(* occurrence of a keyword of the query is put into the text, and the text  *)
(* is scored again.                                                         *)

ScoreAlphabet == {"a", "b"}

\* the words a query of the direct calls is made of
ScoreWords == [1..3 -> ScoreAlphabet]

\* queries of one word, and of two words with a space between them
ScoreQueries ==
  ScoreWords \cup {w1 \o <<" ">> \o w2 : w1 \in ScoreWords, w2 \in ScoreWords}

Cat == <<"c", "a", "t">>
CatDog == <<"C", "a", "t", " ", "d", "o", "g", "?">>

MatParagraph ==
  <<"T", "h", "e", " ", "c", "a", "t", " ", "s", "a", "t", " ", "o", "n", " ", "t", "h", "e", " ", "m", "a", "t", ".">>

\* a paragraph in which "cat" starts two characters before the end of the
\* window of the position bonus
LongParagraph ==
  <<"d", "o", "g">> \o [i \in 1..(BONUS_WINDOW - 5) |-> "."] \o Cat

\* calls with paragraphs of a document
ParagraphCalls ==
  [chunk : {MatParagraph, LongParagraph}, query : {Cat, CatDog}]

InitScore ==
  /\ IdleService
  /\ fnArgs \in [chunk : TextsUpTo(ScoreAlphabet, MaxScoreTextLen), query : ScoreQueries]
                 \cup ParagraphCalls
  /\ fnResult = NotYet

CallScoreChunkRelevance ==
  /\ ~fnResult.made
  /\ fnResult' = [made |-> TRUE, rescored |-> FALSE,
                  score |-> scoreChunkRelevance(fnArgs.chunk, fnArgs.query)]
  /\ UNCHANGED <<knowledgeBase, safeLimit, call, result, prevResult, fnArgs, trainingVars, handlerVars>>

\* the text s with w put in after its first position characters
InsertAt(s, w, position) ==
  SubSeq(s, 1, position) \o w \o SubSeq(s, position + 1, Len(s))

AddOccurrenceAndRescore ==
  /\ fnResult.made
  /\ ~fnResult.rescored
  /\ \E k \in DOMAIN queryWords(fnArgs.query), position \in 0..Len(fnArgs.chunk) :
       LET word == queryWords(fnArgs.query)[k]
           longer == InsertAt(fnArgs.chunk, word, position)
       IN /\ fnArgs' = [fnArgs EXCEPT !.chunk = longer]
          /\ fnResult' = [made |-> TRUE, rescored |-> TRUE,
                          score |-> scoreChunkRelevance(longer, fnArgs.query),
                          previous |-> fnResult.score,
                          original |-> fnArgs.chunk,
                          word |-> word,
                          position |-> position]
  /\ UNCHANGED <<knowledgeBase, safeLimit, call, result, prevResult, trainingVars, handlerVars>>

NextScore == CallScoreChunkRelevance \/ AddOccurrenceAndRescore

SpecScore == InitScore /\ [][NextScore]_vars

\* C10 (as claimed): putting one more occurrence of a keyword of the query
\* anywhere into the chunk text gives a score at least the original score.
C10_AddAnywhereNeverDecreases ==
  (fnResult.made /\ fnResult.rescored) => fnResult.score >= fnResult.previous

\* C10 (amended): appending one more occurrence of a keyword of the query at
\* the end of the chunk text gives a score at least the original score.
C10_AppendNeverDecreases ==
  (fnResult.made /\ fnResult.rescored /\ fnResult.position = Len(fnResult.original))
    => fnResult.score >= fnResult.previous

\* C10 witness: a keyword was appended to a text that already scored, and the
\* score went up.
C10_Witness ==
  /\ fnResult.made
  /\ fnResult.rescored
  /\ fnResult.position = Len(fnResult.original)
  /\ fnResult.previous > 0
  /\ fnResult.score > fnResult.previous

----------------------------------------------------------------------------
(* The service: the knowledge-base directory, changed by the upload and     *)
(* delete routes of the therapy router, and retrievals against it.          *)

\* the budgets, besides the shipped one, a deployment is configured with
SmallBudgets == {-5, 0, 10, 39, 80}

SafeLimits ==
  {SAFE_CONTEXT_LIMIT}
  \cup {SYSTEM_PROMPT_TOKENS + USER_MESSAGE_TOKENS + RESPONSE_TOKENS + b : b \in SmallBudgets}

TxtSuffix == <<".", "t", "x", "t">>

\* req.file.originalname of the uploads
OriginalNames == {<<"c", "a", "t", "s">>, <<"d", "o", "g", "s">>}

\* the text of the uploaded files
Documents ==
  { <<"c", "a", "t", " ", "c", "a", "t", "\n", "\n", "c", "a", "t", " ", "c", "a", "t", "\n", "\n", "c", "a", "t", " ", "c", "a", "t", "\n", "\n", "c", "a", "t", " ", "c", "a", "t">>,
    <<"T", "h", "e", " ", "c", "a", "t", " ", "s", "a", "t", " ", "o", "n", " ", "t", "h", "e", " ", "m", "a", "t", ".">>,
    <<"t", "h", "i", "s", " ", "d", "o", "g", "\n", "\n", "t", "h", "e", " ", "C", "a", "t">>,
    <<"a", " ", "d", "o", "g">> }

Queries ==
  { <<"c", "a", "t">>,
    <<"w", "h", "a", "t", " ", "i", "s", " ", "t", "h", "i", "s">>,
    <<"w", "h", "a", "t", " ", "i", "s", " ", "t", "h", "e">>,
    <<"C", "a", "t", " ", "d", "o", "g", "?">> }

TopKs == (-1)..MaxTopK
ChunkSizes == {SmallChunkSize, DEFAULT_CHUNK_SIZE}

FileNamesOf(files) == {files[i].name : i \in DOMAIN files}

Init ==
  /\ knowledgeBase = <<>>
  /\ safeLimit \in SafeLimits
  /\ call = NotYet
  /\ result = NotYet
  /\ prevResult = NotYet
  /\ fnArgs = NotYet
  /\ fnResult = NotYet
  /\ IdleTraining
  /\ IdleHandlers

\* POST /upload: the text of the file is written to <originalname>.txt, over a
\* file of that name if there is one; where a new entry shows in the listing
\* is up to the file system
Upload(originalname, fileContent) ==
  LET knowledgeFile == originalname \o TxtSuffix
      entry == [name |-> knowledgeFile, content |-> fileContent]
  IN /\ \/ /\ knowledgeFile \in FileNamesOf(knowledgeBase)
           /\ knowledgeBase' = [i \in DOMAIN knowledgeBase |->
                                  IF knowledgeBase[i].name = knowledgeFile
                                  THEN entry ELSE knowledgeBase[i]]
        \/ /\ knowledgeFile \notin FileNamesOf(knowledgeBase)
           /\ \E at \in 0..Len(knowledgeBase) :
                knowledgeBase' = SubSeq(knowledgeBase, 1, at) \o <<entry>>
                                 \o SubSeq(knowledgeBase, at + 1, Len(knowledgeBase))
     /\ call' = NotYet
     /\ result' = NotYet
     /\ prevResult' = NotYet
     /\ UNCHANGED <<safeLimit, fnArgs, fnResult, trainingVars, handlerVars>>

\* DELETE /documents/:filename: unlinks the file if it exists (404 otherwise)
Delete(filename) ==
  IF filename \in FileNamesOf(knowledgeBase)
  THEN /\ knowledgeBase' = SelectSeq(knowledgeBase, LAMBDA f : f.name # filename)
       /\ call' = NotYet
       /\ result' = NotYet
       /\ prevResult' = NotYet
       /\ UNCHANGED <<safeLimit, fnArgs, fnResult, trainingVars, handlerVars>>
  ELSE UNCHANGED vars

\* GetRelevantContext with allChunks kept between calls instead of starting empty
GetRelevantContext_KeepsChunks(query, topK, maxChunkSize) ==
  /\ call.made => (call.query = query /\ call.topK = topK /\ call.maxChunkSize = maxChunkSize)
  /\ call' = [made |-> TRUE, query |-> query, topK |-> topK, maxChunkSize |-> maxChunkSize]
  /\ result' =
       IF Len(knowledgeBase) = 0
       THEN [context |-> <<>>, tokenCount |-> 0, chunksUsed |-> 0]
       ELSE Assemble((IF call.made
                      THEN CollectChunks(knowledgeBase, 1, call.query, call.maxChunkSize)
                      ELSE <<>>)
                     \o CollectChunks(knowledgeBase, 1, query, maxChunkSize),
                     topK, calculateAvailableContextTokens(safeLimit))
  /\ prevResult' = IF call.made THEN [made |-> TRUE, value |-> result] ELSE NotYet
  /\ UNCHANGED <<knowledgeBase, safeLimit, fnArgs, fnResult, trainingVars, handlerVars>>

\* a retrieval, run to its end: the code is synchronous.  While the result of
\* a retrieval is held, only the same retrieval is made again.
GetRelevantContext(query, topK, maxChunkSize) ==
  /\ call.made => (call.query = query /\ call.topK = topK /\ call.maxChunkSize = maxChunkSize)
  /\ call' = [made |-> TRUE, query |-> query, topK |-> topK, maxChunkSize |-> maxChunkSize]
  /\ result' = getRelevantContext(knowledgeBase, query, topK, maxChunkSize,
                                  calculateAvailableContextTokens(safeLimit))
  /\ prevResult' = IF call.made THEN [made |-> TRUE, value |-> result] ELSE NotYet
  /\ UNCHANGED <<knowledgeBase, safeLimit, fnArgs, fnResult, trainingVars, handlerVars>>

\* the caller is done with the result
Respond ==
  /\ call.made
  /\ call' = NotYet
  /\ result' = NotYet
  /\ prevResult' = NotYet
  /\ UNCHANGED <<knowledgeBase, safeLimit, fnArgs, fnResult, trainingVars, handlerVars>>

Next ==
  \/ \E originalname \in OriginalNames, fileContent \in Documents :
       Upload(originalname, fileContent)
  \/ \E originalname \in OriginalNames : Delete(originalname \o TxtSuffix)
  \/ \E query \in Queries, topK \in TopKs, maxChunkSize \in ChunkSizes :
       GetRelevantContext(query, topK, maxChunkSize)
  \/ Respond

Spec == Init /\ [][Next]_vars

\* the budget of this deployment
AvailableTokens == calculateAvailableContextTokens(safeLimit)

\* the chunks of every file of the directory, for the latest call, with their scores
StoreChunks ==
  UNION { LET chunks == chunkText(knowledgeBase[f].content, call.maxChunkSize)
          IN {[filename   |-> knowledgeBase[f].name,
               chunkIndex |-> idx,
               content    |-> chunks[idx].content,
               score      |-> scoreChunkRelevance(chunks[idx].content, call.query)]
                : idx \in DOMAIN chunks}
          : f \in DOMAIN knowledgeBase }

\* the candidates of the latest call: the chunks that were pushed onto allChunks
Candidates == CollectChunks(knowledgeBase, 1, call.query, call.maxChunkSize)

HeaderTokens == estimateTokens(ContextHeader)

\* C1: the tokenCount a retrieval returns is at most the budget
\* calculateAvailableContextTokens() gives, for the shipped constants and for
\* every other configuration with a budget of at least 0, whichever path the
\* retrieval took (empty directory, selection, failsafe).
C1_TokenCountWithinBudget ==
  (call.made /\ AvailableTokens >= 0) => result.tokenCount <= AvailableTokens

\* C1 witness: the budget was binding: a retrieval took a chunk and stopped at
\* the next candidate, which topK allowed, because it did not fit.
C1_Witness ==
  /\ call.made
  /\ AvailableTokens >= 0
  /\ result.chunksUsed >= 1
  /\ result.chunksUsed < Min(call.topK, Len(Candidates))
  /\ result.tokenCount <= AvailableTokens

\* C2 (as claimed, where no truncation was needed): when the header fits the
\* budget, the estimated token count of the returned context is within the budget.
C2_ContextWithinBudget ==
  (call.made /\ knowledgeBase # <<>> /\ AvailableTokens >= HeaderTokens)
    => estimateTokens(result.context) <= AvailableTokens

\* C2 (as claimed, after the failsafe truncation): when the header alone
\* exceeds a budget of at least 0, the truncated context is within the budget.
C2_TruncatedContextWithinBudget ==
  (call.made /\ knowledgeBase # <<>>
     /\ AvailableTokens >= 0 /\ AvailableTokens < HeaderTokens)
    => estimateTokens(result.context) <= AvailableTokens

\* C3: a chunk whose lower-cased text holds none of the keywords of the query
\* scores exactly 0, and every source of a retrieval is a chunk of the
\* directory that scores above 0.
C3_ZeroScoreExcluded ==
  call.made =>
    /\ \A c \in StoreChunks :
         (\A k \in DOMAIN queryWords(call.query) :
            ~includes(toLowerCase(c.content), queryWords(call.query)[k]))
         => c.score = 0
    /\ "sources" \in DOMAIN result =>
         \A j \in DOMAIN result.sources :
           \E c \in StoreChunks :
             /\ c.filename = result.sources[j].filename
             /\ c.chunkIndex = result.sources[j].chunkIndex
             /\ c.score > 0

\* C3 witness: the directory holds a chunk that scores 0 and one that scores
\* above 0, topK and the budget leave room for both, and one chunk was used.
C3_Witness ==
  /\ call.made
  /\ \E c \in StoreChunks : c.score = 0
  /\ Cardinality(StoreChunks) = 2
  /\ call.topK >= 2
  /\ safeLimit = SAFE_CONTEXT_LIMIT
  /\ result.chunksUsed = 1

\* C6 (as claimed): when the directory holds a document but every chunk
\* scores 0, the retrieval returns context '', tokenCount 0 and chunksUsed 0.
C6_NoMatchIsEmptyResult ==
  (call.made /\ knowledgeBase # <<>> /\ safeLimit = SAFE_CONTEXT_LIMIT
     /\ \A c \in StoreChunks : c.score = 0)
    => (result.context = <<>> /\ result.tokenCount = 0 /\ result.chunksUsed = 0)

\* C7 (as claimed): on an empty directory the retrieval returns context '',
\* tokenCount 0, chunksUsed 0 and sources equal to the empty list.
C7_EmptyStoreResult ==
  (call.made /\ knowledgeBase = <<>>)
    => /\ result.context = <<>>
       /\ result.tokenCount = 0
       /\ result.chunksUsed = 0
       /\ "sources" \in DOMAIN result
       /\ result.sources = <<>>

WhatIsThis == <<"w", "h", "a", "t", " ", "i", "s", " ", "t", "h", "i", "s">>

\* the pieces of the query are all stop words or at most 2 characters long
OnlyStopWords(query) ==
  LET pieces == SplitWordsFrom(toLowerCase(query), 1, <<>>)
  IN \A k \in DOMAIN pieces : Len(pieces[k]) <= 2 \/ pieces[k] \in stopWords

\* C8 (as claimed): the query "what is this" uses no chunk, whatever the
\* directory holds.
C8_WhatIsThisUsesNoChunk ==
  (call.made /\ call.query = WhatIsThis) => result.chunksUsed = 0

\* C8 (amended): a query whose words are all in the stop-word list or at most 2
\* characters long, such as "what is the", has no keywords, every chunk
\* scores 0 for it, and a retrieval with it uses no chunk.
C8_StopWordQueryUsesNoChunk ==
  (call.made /\ OnlyStopWords(call.query)) =>
    /\ queryWords(call.query) = <<>>
    /\ \A c \in StoreChunks : c.score = 0
    /\ result.chunksUsed = 0

\* C8 witness: a stop-word-only query was run, with room for a chunk, against a
\* directory that holds the word "the".
C8_Witness ==
  /\ call.made
  /\ OnlyStopWords(call.query)
  /\ call.topK >= 1
  /\ safeLimit = SAFE_CONTEXT_LIMIT
  /\ \E c \in StoreChunks : includes(toLowerCase(c.content), <<"t", "h", "e">>)
  /\ result.chunksUsed = 0

SortedCandidates == SortByScore(Candidates, Len(Candidates))

\* what the i-th (1-based) pass of the selection loop counts for the chunk
ChunkTokens(i, chunk) == chunk.tokens + estimateTokens(chunkHeader(i - 1, chunk))

\* the header and the first n sorted candidates, as the loop counts them
RECURSIVE TokensOfFirst(_, _)
TokensOfFirst(sorted, n) ==
  IF n = 0 THEN HeaderTokens
  ELSE TokensOfFirst(sorted, n - 1) + ChunkTokens(n, sorted[n])

\* C19: the chunks a retrieval selects are a prefix of the candidates sorted
\* by score: the selection stops at the first candidate, among the first topK,
\* that would take the total over the budget, and no candidate after that one
\* is selected.
C19_SelectionIsPrefix ==
  (call.made /\ knowledgeBase # <<>>) =>
    LET n == result.chunksUsed
        sorted == SortedCandidates
    IN /\ n <= Len(sorted)
       /\ result.sources = [j \in 1..n |-> SourceOf(sorted[j])]
       /\ n < Min(call.topK, Len(sorted)) =>
            TokensOfFirst(sorted, n) + ChunkTokens(n + 1, sorted[n + 1]) > AvailableTokens
       /\ \A j \in 1..n : TokensOfFirst(sorted, j) <= AvailableTokens

\* C19 witness: the selection stopped at a candidate that did not fit, and a
\* candidate after it, within topK, would have fitted in its place.
C19_Witness ==
  /\ call.made
  /\ knowledgeBase # <<>>
  /\ AvailableTokens >= HeaderTokens
  /\ LET sorted == SortedCandidates
     IN \E j \in DOMAIN sorted :
          /\ j > result.chunksUsed + 1
          /\ j <= call.topK
          /\ TokensOfFirst(sorted, result.chunksUsed)
               + ChunkTokens(result.chunksUsed + 1, sorted[j]) <= AvailableTokens
          /\ \A k \in DOMAIN result.sources : result.sources[k] # SourceOf(sorted[j])

\* the score of the chunk a source stands for
ScoreOfSource(source) ==
  LET chunk == CHOOSE c \in StoreChunks :
                 c.filename = source.filename /\ c.chunkIndex = source.chunkIndex
  IN chunk.score

\* where the file shows in the listing of the directory
ListingPosition(filename) ==
  CHOOSE f \in DOMAIN knowledgeBase : knowledgeBase[f].name = filename

\* a chunk comes before another in the order the chunks are collected: files
\* in listing order, the chunks of a file in chunk order
CollectedBefore(a, b) ==
  \/ ListingPosition(a.filename) < ListingPosition(b.filename)
  \/ a.filename = b.filename /\ a.chunkIndex < b.chunkIndex

\* C20: the selected chunks come in non-increasing order of score; chunks of
\* equal score come in the order they were collected (listing order of the
\* documents, then chunk order), and of two candidates of equal score the one
\* collected first is selected first.
C20_SelectionOrder ==
  (call.made /\ knowledgeBase # <<>>) =>
    /\ \A j, k \in DOMAIN result.sources :
         j < k =>
           /\ ScoreOfSource(result.sources[j]) >= ScoreOfSource(result.sources[k])
           /\ ScoreOfSource(result.sources[j]) = ScoreOfSource(result.sources[k])
                => CollectedBefore(result.sources[j], result.sources[k])
    /\ \A k \in DOMAIN result.sources :
         \A c \in StoreChunks :
           (c.score = ScoreOfSource(result.sources[k]) /\ CollectedBefore(c, result.sources[k]))
           => \E j \in 1..(k - 1) :
                /\ result.sources[j].filename = c.filename
                /\ result.sources[j].chunkIndex = c.chunkIndex

\* C20 witness: chunks of two documents that score the same were selected,
\* the chunk of the document listed first ahead of the other, the listing not
\* being in the order of the names.
C20_Witness ==
  /\ call.made
  /\ result.chunksUsed >= 2
  /\ knowledgeBase[1].name = <<"d", "o", "g", "s">> \o TxtSuffix
  /\ result.sources[1].filename = knowledgeBase[1].name
  /\ result.sources[2].filename # knowledgeBase[1].name
  /\ ScoreOfSource(result.sources[1]) = ScoreOfSource(result.sources[2])

\* C12: with a budget of zero or less and a directory that holds a document,
\* a retrieval returns a result (no error is raised) that uses no chunk:
\* chunksUsed is 0 and sources is the empty list.
C12_NoBudgetUsesNoChunk ==
  (call.made /\ knowledgeBase # <<>> /\ AvailableTokens <= 0) =>
    /\ {"context", "tokenCount", "chunksUsed", "sources"} \subseteq DOMAIN result
    /\ result.chunksUsed = 0
    /\ result.sources = <<>>

\* C12 witness: a retrieval with topK of at least 1 had a candidate, and a
\* budget of zero or less kept it out.
C12_Witness ==
  /\ call.made
  /\ AvailableTokens <= 0
  /\ Candidates # <<>>
  /\ call.topK >= 1
  /\ result.chunksUsed = 0
  /\ result.sources = <<>>

----------------------------------------------------------------------------
(* The score as the documentation states it. *)

\* the positions (1-based) at which the keyword stands in the chunk, letter
\* case aside
OccurrencePositions(chunk, keyword) ==
  {i \in 1..(Len(chunk) - Len(keyword) + 1) :
     \A k \in DOMAIN keyword : LowerChar(chunk[i + k - 1]) = keyword[k]}

\* the number of occurrences of the keyword in the chunk, no two of them
\* sharing a character
Occurrences(chunk, keyword) ==
  LET apart == {S \in SUBSET OccurrencePositions(chunk, keyword) :
                  \A i, j \in S : i < j => j - i >= Len(keyword)}
  IN CHOOSE n \in 0..Len(chunk) :
       /\ \E S \in apart : Cardinality(S) = n
       /\ \A S \in apart : Cardinality(S) <= n

\* 10 points per occurrence, and 5 more if an occurrence lies within the
\* first 200 characters
DocumentedKeywordScore(chunk, keyword) ==
  10 * Occurrences(chunk, keyword)
  + (IF \E i \in OccurrencePositions(chunk, keyword) : i + Len(keyword) - 1 <= BONUS_WINDOW
     THEN 5 ELSE 0)

RECURSIVE DocumentedScore(_, _, _)
DocumentedScore(chunk, keywords, k) ==
  IF k > Len(keywords) THEN 0
  ELSE DocumentedKeywordScore(chunk, keywords[k]) + DocumentedScore(chunk, keywords, k + 1)

DEFAULT_TOP_K == 3

\* the retrieval of the scenario: a directory with one file that holds only
\* MatParagraph, queried with "cat" under the shipped constants
MatRetrieval ==
  getRelevantContext(<<[name |-> <<"c", "a", "t", "s">> \o TxtSuffix, content |-> MatParagraph]>>,
                     Cat, DEFAULT_TOP_K, DEFAULT_CHUNK_SIZE,
                     calculateAvailableContextTokens(SAFE_CONTEXT_LIMIT))

----------------------------------------------------------------------------
(* Direct calls of estimateTokens and truncateToTokenLimit on every short   *)
(* text.                                                                    *)

TokenAlphabet == {"a", " "}

InitTokens ==
  /\ IdleService
  /\ fnArgs \in [text : TextsUpTo(TokenAlphabet, MaxTokenTextLen), maxTokens : 0..MaxTokensArg]
  /\ fnResult = NotYet

CallEstimateTokens ==
  /\ ~fnResult.made
  /\ fnResult' = [made |-> TRUE, fn |-> "estimateTokens",
                  tokens |-> estimateTokens(fnArgs.text)]
  /\ UNCHANGED <<knowledgeBase, safeLimit, call, result, prevResult, fnArgs, trainingVars, handlerVars>>

CallTruncateToTokenLimit ==
  /\ ~fnResult.made
  /\ fnResult' = [made |-> TRUE, fn |-> "truncateToTokenLimit",
                  text |-> truncateToTokenLimit(fnArgs.text, fnArgs.maxTokens)]
  /\ UNCHANGED <<knowledgeBase, safeLimit, call, result, prevResult, fnArgs, trainingVars, handlerVars>>

NextTokens == CallEstimateTokens \/ CallTruncateToTokenLimit

SpecTokens == InitTokens /\ [][NextTokens]_vars

\* C14 (as claimed): for every text and every maxTokens of at least 0, the
\* estimated token count of truncateToTokenLimit(text, maxTokens) is at most
\* maxTokens.
C14_TruncatedWithinLimit ==
  (fnResult.made /\ fnResult.fn = "truncateToTokenLimit")
    => estimateTokens(fnResult.text) <= fnArgs.maxTokens

\* C15: estimateTokens(text) is the least n with 7 * n >= 2 * length, that is
\* the length divided by 3.5 and rounded up; it is 0 for the empty text, and
\* it is the same for every text of that length.
C15_EstimateIsCeiling ==
  (fnResult.made /\ fnResult.fn = "estimateTokens") =>
    LET length == Len(fnArgs.text)
        n == fnResult.tokens
    IN /\ n >= 0
       /\ 7 * n >= 2 * length
       /\ \A m \in 0..(n - 1) : 7 * m < 2 * length
       /\ length = 0 => n = 0
       /\ \A other \in [1..length -> TokenAlphabet] : estimateTokens(other) = n

\* C15 witness: a text whose length is not a multiple of 3.5 was estimated,
\* and the estimate was rounded up.
C15_Witness ==
  /\ fnResult.made
  /\ fnResult.fn = "estimateTokens"
  /\ (2 * Len(fnArgs.text)) % 7 # 0
  /\ fnResult.tokens >= 2
  /\ 7 * fnResult.tokens > 2 * Len(fnArgs.text)

----------------------------------------------------------------------------
(* routes/training.js: the examples of user-examples.json and the routes    *)
(* that read and write them.  Every handler is synchronous: it loads the    *)
(* file, changes the list and saves it before another request is served.    *)

DigitSet == Range(DigitChars)

DigitOf(c) == CHOOSE d \in 0..9 : DigitChars[d + 1] = c

\* the first position >= i of s that holds no white space (Len(s) + 1 if none)
RECURSIVE SkipWhitespace(_, _)
SkipWhitespace(s, i) ==
  IF i <= Len(s) /\ s[i] \in Whitespace THEN SkipWhitespace(s, i + 1) ELSE i

\* the value of the digits of s from position i on, after the digits read so far
RECURSIVE ReadDigits(_, _, _)
ReadDigits(s, i, acc) ==
  IF i <= Len(s) /\ s[i] \in DigitSet
  THEN ReadDigits(s, i + 1, 10 * acc + DigitOf(s[i]))
  ELSE acc

\* parseInt(string): white space, a sign, then decimal digits up to the first
\* other character; NaN when there is no digit
parseInt(s) ==
  LET start == SkipWhitespace(s, 1)
      signed == start <= Len(s) /\ s[start] \in {"-", "+"}
      first == IF signed THEN start + 1 ELSE start
      digits == ReadDigits(s, first, 0)
  IN IF first <= Len(s) /\ s[first] \in DigitSet
     THEN [nan |-> FALSE, value |-> IF s[start] = "-" THEN 0 - digits ELSE digits]
     ELSE [nan |-> TRUE]

\* examples.splice(index, 1): NaN counts as 0; nothing is removed past the end
splice(list, index) ==
  LET start == IF index.nan THEN 0 ELSE index.value
  IN IF start < Len(list)
     THEN SubSeq(list, 1, start) \o SubSeq(list, start + 2, Len(list))
     ELSE list

\* req.body.instruction and req.body.response of the add-example requests
Instructions == {<<>>, <<"q">>}
Responses == {<<>>, <<"a">>, <<"b">>}

\* req.params.index of the delete requests
IndexParams == {<<"0">>, <<"1">>, <<"7">>, <<"-", "1">>, <<"a", "b", "c">>}

InitTraining ==
  /\ IdleService
  /\ fnArgs = NotYet
  /\ fnResult = NotYet

\* GET /examples
GetExamples ==
  /\ reply' = [made |-> TRUE, route |-> "GET /examples", status |-> 200,
               success |-> TRUE, count |-> Len(examples)]
  /\ UNCHANGED <<knowledgeBase, safeLimit, call, result, prevResult, fnArgs, fnResult,
                 examples, tally, handlerVars>>

\* POST /add-example (context is '' when the request has none)
AddExample(instruction, response) ==
  /\ UNCHANGED <<knowledgeBase, safeLimit, call, result, prevResult, fnArgs, fnResult,
                 handlerVars>>
  /\ IF instruction = <<>> \/ response = <<>>
     THEN /\ reply' = [made |-> TRUE, route |-> "POST /add-example", status |-> 400,
                       success |-> FALSE]
          /\ UNCHANGED <<examples, tally>>
     ELSE /\ Len(examples) < MaxExamples
          /\ tally.added < MaxTallied
          /\ examples' = Append(examples, [instruction |-> instruction, context |-> <<>>,
                                           response |-> response])
          /\ tally' = [tally EXCEPT !.added = @ + 1]
          /\ reply' = [made |-> TRUE, route |-> "POST /add-example", status |-> 200,
                       success |-> TRUE, total_examples |-> Len(examples')]

\* DELETE /examples/:index
DeleteExample(param) ==
  LET index == parseInt(param)
  IN /\ UNCHANGED <<knowledgeBase, safeLimit, call, result, prevResult, fnArgs, fnResult,
                    handlerVars>>
     /\ IF ~index.nan /\ (index.value < 0 \/ index.value >= Len(examples))
        THEN /\ reply' = [made |-> TRUE, route |-> "DELETE /examples", status |-> 404,
                          success |-> FALSE]
             /\ UNCHANGED <<examples, tally>>
        ELSE /\ tally.deleted < MaxTallied
             /\ examples' = splice(examples, index)
             /\ tally' = [tally EXCEPT !.deleted = @ + 1]
             /\ reply' = [made |-> TRUE, route |-> "DELETE /examples", status |-> 200,
                          success |-> TRUE, remaining_examples |-> Len(examples')]

\* POST /clear
ClearExamples ==
  /\ examples' = <<>>
  /\ tally' = [added |-> 0, deleted |-> 0]
  /\ reply' = [made |-> TRUE, route |-> "POST /clear", status |-> 200, success |-> TRUE]
  /\ UNCHANGED <<knowledgeBase, safeLimit, call, result, prevResult, fnArgs, fnResult,
                 handlerVars>>

NextTraining ==
  \/ GetExamples
  \/ \E instruction \in Instructions, response \in Responses :
       AddExample(instruction, response)
  \/ \E param \in IndexParams : DeleteExample(param)
  \/ ClearExamples

SpecTraining == InitTraining /\ [][NextTraining]_vars

\* C18 (as claimed): an add-example request with a non-empty instruction and
\* response is answered with success and the list is one longer, and the count
\* GET /examples returns is the number of adds answered with success minus the
\* number of deletes answered with success since the last clear.
C18_CountIsAddsMinusDeletes ==
  /\ (reply.made /\ reply.route = "POST /add-example" /\ reply.status # 400)
       => (reply.success /\ reply.total_examples = Len(examples) /\ examples # <<>>)
  /\ (reply.made /\ reply.route = "GET /examples")
       => reply.count = tally.added - tally.deleted

----------------------------------------------------------------------------
(* The handlers of the therapy router as the event loop runs them: the code *)
(* of a handler between two awaits is one step.  A /chat-with-docs request  *)
(* retrieves the context and then awaits the model; the upload of a PDF     *)
(* awaits the text extraction and then writes the file.                     *)

TwoParagraphs ==
  <<"t", "h", "i", "s", " ", "d", "o", "g", "\n", "\n", "t", "h", "e", " ", "C", "a", "t">>

\* the text of the files uploaded while requests are in flight
HandlerDocuments == {MatParagraph, TwoParagraphs}

\* req.file.originalname of a text file and of a PDF
TextName == <<"c", "a", "t", "s">>
PdfName == <<"d", "o", "g", "s", ".", "p", "d", "f">>

\* req.body.message; the empty message stands for a request without one
Messages == {<<>>, Cat}

\* fs.readdirSync(knowledgeBaseDir)
readdirSync(dir) == [f \in DOMAIN dir |-> dir[f].name]

\* the directory after fs.writeFileSync(knowledgeFile, fileContent) cut short:
\* only the first half of the content is in the file
writeFileSync_Partial(dir, knowledgeFile, fileContent, at) ==
  LET entry == [name |-> knowledgeFile,
                content |-> SubSeq(fileContent, 1, Len(fileContent) \div 2)]
  IN IF knowledgeFile \in FileNamesOf(dir)
     THEN [f \in DOMAIN dir |-> IF dir[f].name = knowledgeFile THEN entry ELSE dir[f]]
     ELSE SubSeq(dir, 1, at) \o <<entry>> \o SubSeq(dir, at + 1, Len(dir))

\* the directory after fs.writeFileSync(knowledgeFile, fileContent); a new
\* file shows in the listing after the first `at` entries
writeFileSync(dir, knowledgeFile, fileContent, at) ==
  LET entry == [name |-> knowledgeFile, content |-> fileContent]
  IN IF knowledgeFile \in FileNamesOf(dir)
     THEN [f \in DOMAIN dir |-> IF dir[f].name = knowledgeFile THEN entry ELSE dir[f]]
     ELSE SubSeq(dir, 1, at) \o <<entry>> \o SubSeq(dir, at + 1, Len(dir))

\* whether fs.readFileSync of the listed file throws: the file is not in the
\* directory, or it is one of those the file system refuses to read
ReadThrows(dir, failing, filename) ==
  filename \in failing \/ filename \notin FileNamesOf(dir)

\* fs.readFileSync(filePath, 'utf-8') of a file that is in the directory
readFileSync(dir, filename) ==
  dir[CHOOSE f \in DOMAIN dir : dir[f].name = filename].content

Thrown == [made |-> TRUE, thrown |-> TRUE]

\* getRelevantContext on the listing `files` of a directory that is `dir` when
\* the files are read: the first read that throws ends the call
getRelevantContextOrThrow(files, dir, failing, query, topK, maxChunkSize, availableTokens) ==
  IF \E f \in DOMAIN files : ReadThrows(dir, failing, files[f])
  THEN Thrown
  ELSE [made |-> TRUE, thrown |-> FALSE,
        value |-> getRelevantContext(
                    [f \in DOMAIN files |->
                       [name |-> files[f], content |-> readFileSync(dir, files[f])]],
                    query, topK, maxChunkSize, availableTokens)]

\* the chunks pushed onto allChunks before the first read that throws
ChunksBeforeThrow(files, dir, failing, query, maxChunkSize) ==
  LET first == CHOOSE f \in DOMAIN files :
                 /\ ReadThrows(dir, failing, files[f])
                 /\ \A g \in 1..(f - 1) : ~ReadThrows(dir, failing, files[g])
  IN CollectChunks([g \in 1..(first - 1) |->
                      [name |-> files[g], content |-> readFileSync(dir, files[g])]],
                   1, query, maxChunkSize)

InitHandlers ==
  /\ IdleService
  /\ fnArgs = NotYet
  /\ fnResult = NotYet

\* what the retrieval of a request saw of the directory: how many files were
\* listed, a listed file that was not there when read, a file with part of
\* its text only; and whether an upload was waiting to write its file
Observed(files, dir) ==
  [listed    |-> Len(files),
   missing   |-> \E f \in DOMAIN files : files[f] \notin FileNamesOf(dir),
   partial   |-> \E f \in DOMAIN dir : dir[f].content \notin HandlerDocuments,
   uploading |-> uploading.made]

\* the request when the model has been called
AwaitingModel(message, use_knowledge_base, retrieval, observed) ==
  [pc |-> "awaitingModel", modelCalled |-> TRUE, message |-> message,
   use_knowledge_base |-> use_knowledge_base, retrieval |-> retrieval,
   observed |-> observed]

\* the request when res.status(status).json(...) has been called for an error
Failed(status, modelCalled, thrown, collected) ==
  [pc |-> "done", status |-> status, modelCalled |-> modelCalled, thrown |-> thrown,
   collected |-> collected]

\* ChatStart with a policy of skipping a file that cannot be read: the chunks
\* of the other files go to the model
ChatStart_SkipsUnreadable(r, message, use_knowledge_base, failing) ==
  /\ requests[r].pc = "idle"
  /\ failing # {} => (use_knowledge_base /\ message # <<>>)
  /\ failing \subseteq FileNamesOf(knowledgeBase)
  /\ LET files == readdirSync(knowledgeBase)
         readable == SelectSeq(files, LAMBDA name : ~ReadThrows(knowledgeBase, failing, name))
         retrieval ==
           IF use_knowledge_base /\ Len(files) > 0
           THEN [getRelevantContextOrThrow(readable, knowledgeBase, {}, message,
                                           DEFAULT_TOP_K, DEFAULT_CHUNK_SIZE,
                                           calculateAvailableContextTokens(safeLimit))
                   EXCEPT !.thrown = failing # {}]
           ELSE NotYet
     IN requests' = [requests EXCEPT ![r] =
          IF message = <<>>
          THEN Failed(400, FALSE, FALSE, 0)
          ELSE AwaitingModel(message, use_knowledge_base, retrieval,
                             Observed(files, knowledgeBase))]
  /\ UNCHANGED <<knowledgeBase, safeLimit, call, result, prevResult, fnArgs, fnResult,
                 trainingVars, uploading>>

\* ChatStart with allChunks kept in the module: the chunks collected for the
\* requests that still await the model are candidates of this retrieval too
ChatStart_SharesChunks(r, message, use_knowledge_base, failing) ==
  /\ requests[r].pc = "idle"
  /\ failing # {} => (use_knowledge_base /\ message # <<>>)
  /\ failing \subseteq FileNamesOf(knowledgeBase)
  /\ LET files == readdirSync(knowledgeBase)
         others == {o \in RequestIds : requests[o].pc = "awaitingModel"}
         own == getRelevantContextOrThrow(files, knowledgeBase, failing, message,
                                          DEFAULT_TOP_K, DEFAULT_CHUNK_SIZE,
                                          calculateAvailableContextTokens(safeLimit))
         retrieval ==
           IF use_knowledge_base /\ Len(files) > 0
           THEN IF own.thrown \/ others = {} THEN own
                ELSE [own EXCEPT !.value =
                        Assemble(CollectChunks(knowledgeBase, 1, message, DEFAULT_CHUNK_SIZE)
                                 \o CollectChunks(knowledgeBase, 1, message, DEFAULT_CHUNK_SIZE),
                                 DEFAULT_TOP_K, calculateAvailableContextTokens(safeLimit))]
           ELSE NotYet
     IN requests' = [requests EXCEPT ![r] =
          IF message = <<>>
          THEN Failed(400, FALSE, FALSE, 0)
          ELSE IF retrieval.made /\ retrieval.thrown
          THEN Failed(500, FALSE, TRUE,
                      Len(ChunksBeforeThrow(files, knowledgeBase, failing, message,
                                            DEFAULT_CHUNK_SIZE)))
          ELSE AwaitingModel(message, use_knowledge_base, retrieval,
                             Observed(files, knowledgeBase))]
  /\ UNCHANGED <<knowledgeBase, safeLimit, call, result, prevResult, fnArgs, fnResult,
                 trainingVars, uploading>>

\* POST /chat-with-docs up to the await of client.chatCompletion: a request
\* without message is answered 400; the retrieval runs when the knowledge base
\* is used and the directory lists a file; an error thrown by it is caught and
\* answered 500; otherwise the model is called.  failing are the files the
\* file system refuses to read.
ChatStart(r, message, use_knowledge_base, failing) ==
  /\ requests[r].pc = "idle"
  /\ failing # {} => (use_knowledge_base /\ message # <<>>)
  /\ failing \subseteq FileNamesOf(knowledgeBase)
  /\ LET files == readdirSync(knowledgeBase)
         retrieval ==
           IF use_knowledge_base /\ Len(files) > 0
           THEN getRelevantContextOrThrow(readdirSync(knowledgeBase), knowledgeBase, failing,
                                          message, DEFAULT_TOP_K, DEFAULT_CHUNK_SIZE,
                                          calculateAvailableContextTokens(safeLimit))
           ELSE NotYet
     IN requests' = [requests EXCEPT ![r] =
          IF message = <<>>
          THEN Failed(400, FALSE, FALSE, 0)
          ELSE IF retrieval.made /\ retrieval.thrown
          THEN Failed(500, FALSE, TRUE,
                      Len(ChunksBeforeThrow(files, knowledgeBase, failing, message,
                                            DEFAULT_CHUNK_SIZE)))
          ELSE AwaitingModel(message, use_knowledge_base, retrieval,
                             Observed(files, knowledgeBase))]
  /\ UNCHANGED <<knowledgeBase, safeLimit, call, result, prevResult, fnArgs, fnResult,
                 trainingVars, uploading>>

\* client.chatCompletion resolves and the response is sent
ModelReplies(r) ==
  /\ requests[r].pc = "awaitingModel"
  /\ requests' = [requests EXCEPT ![r] =
       [pc |-> "done", status |-> 200, modelCalled |-> TRUE, thrown |-> FALSE,
        knowledge_base_used |-> requests[r].use_knowledge_base,
        listed |-> requests[r].observed.listed,
        documents_count |-> IF requests[r].use_knowledge_base
                            THEN Len(readdirSync(knowledgeBase)) ELSE 0,
        chunks_used |-> IF requests[r].retrieval.made
                           /\ requests[r].retrieval.value.context # <<>>
                        THEN requests[r].retrieval.value.chunksUsed ELSE 0]]
  /\ UNCHANGED <<knowledgeBase, safeLimit, call, result, prevResult, fnArgs, fnResult,
                 trainingVars, uploading>>

\* client.chatCompletion rejects: the error is caught and answered 500
ModelFails(r) ==
  /\ requests[r].pc = "awaitingModel"
  /\ requests' = [requests EXCEPT ![r] = Failed(500, TRUE, FALSE, 0)]
  /\ UNCHANGED <<knowledgeBase, safeLimit, call, result, prevResult, fnArgs, fnResult,
                 trainingVars, uploading>>

\* the response has gone out
Finish(r) ==
  /\ requests[r].pc = "done"
  /\ requests' = [requests EXCEPT ![r] = IdleRequest]
  /\ UNCHANGED <<knowledgeBase, safeLimit, call, result, prevResult, fnArgs, fnResult,
                 trainingVars, uploading>>

\* POST /upload of a PDF up to the await of extractTextFromPDF
UploadPdfStart(originalname, fileContent) ==
  /\ ~uploading.made
  /\ uploading' = [made |-> TRUE, originalname |-> originalname, fileContent |-> fileContent]
  /\ UNCHANGED <<knowledgeBase, safeLimit, call, result, prevResult, fnArgs, fnResult,
                 trainingVars, requests>>

\* the text of the PDF is there: it is written to <originalname>.txt
UploadPdfWrite ==
  /\ uploading.made
  /\ \E at \in 0..Len(knowledgeBase) :
       /\ (uploading.originalname \o TxtSuffix) \in FileNamesOf(knowledgeBase) => at = 0
       /\ knowledgeBase' = writeFileSync(knowledgeBase, uploading.originalname \o TxtSuffix,
                                         uploading.fileContent, at)
  /\ uploading' = NotYet
  /\ UNCHANGED <<safeLimit, call, result, prevResult, fnArgs, fnResult, trainingVars, requests>>

\* extractTextFromPDF rejects: the error is caught and answered 500
UploadPdfFails ==
  /\ uploading.made
  /\ uploading' = NotYet
  /\ UNCHANGED <<knowledgeBase, safeLimit, call, result, prevResult, fnArgs, fnResult,
                 trainingVars, requests>>

NextHandlers ==
  \/ \E r \in RequestIds, message \in Messages, use_knowledge_base \in BOOLEAN,
        failing \in {{}} \cup {{name} : name \in FileNamesOf(knowledgeBase)} :
       ChatStart(r, message, use_knowledge_base, failing)
  \/ \E r \in RequestIds : ModelReplies(r)
  \/ \E r \in RequestIds : ModelFails(r)
  \/ \E r \in RequestIds : Finish(r)
  \/ \E fileContent \in HandlerDocuments : Upload(TextName, fileContent)
  \/ UploadPdfStart(PdfName, TwoParagraphs)
  \/ UploadPdfWrite
  \/ UploadPdfFails
  \/ \E originalname \in {TextName, PdfName} : Delete(originalname \o TxtSuffix)

\* a promise that is pending settles, and the code that awaits it runs
SpecHandlers ==
  /\ InitHandlers
  /\ [][NextHandlers]_vars
  /\ \A r \in RequestIds : WF_vars(ModelReplies(r) \/ ModelFails(r))
  /\ \A r \in RequestIds : WF_vars(Finish(r))
  /\ WF_vars(UploadPdfWrite \/ UploadPdfFails)

\* C11: when a listed document cannot be read, getRelevantContext throws and
\* returns no ContextResult: the handler answers 500 without calling the
\* model and its response carries nothing of the chunks collected before the
\* failure; a request that reached the model has a retrieval that did not throw
C11_ReadFailureIsFatal ==
  \A r \in RequestIds :
    /\ (requests[r].pc = "done" /\ requests[r].thrown) =>
         /\ requests[r].status = 500
         /\ ~requests[r].modelCalled
         /\ DOMAIN requests[r] \cap {"retrieval", "chunks_used", "documents_count"} = {}
    /\ (requests[r].pc = "awaitingModel" /\ requests[r].retrieval.made) =>
         /\ ~requests[r].retrieval.thrown
         /\ "value" \in DOMAIN requests[r].retrieval

\* a request answered 500 because the second listed document could not be
\* read, after chunks of the first had been collected
C11_Witness ==
  \E r \in RequestIds :
    /\ requests[r].pc = "done"
    /\ requests[r].thrown
    /\ requests[r].status = 500
    /\ requests[r].collected >= 1

SawTornDirectory(r) ==
  /\ requests[r].pc = "awaitingModel"
  /\ requests[r].observed.missing \/ requests[r].observed.partial

----------------------------------------------------------------------------
(* The count of selected chunks. *)

\* the chunks of the directory that score above 0 for the latest call
PositiveChunks == {c \in StoreChunks : c.score > 0}

----------------------------------------------------------------------------
(* The chunks of chunkText and their offsets. *)

\* the paragraphs a chunk holds
ParagraphsOf(chunk) == SplitParagraphs(chunk.content)

\* C22: two consecutive non-empty paragraphs whose trimmed lengths sum to more
\* than maxChunkSize are never in the same chunk: the chunks hold the
\* non-empty paragraphs of the text in order, and any two neighbours within
\* one chunk sum to at most maxChunkSize; two paragraphs of 500 characters
\* with a maxChunkSize of 600 give exactly 2 chunks
C22_LargePairIsSplit ==
  fnResult.made =>
    /\ \A i \in DOMAIN fnResult.chunks :
         LET ps == ParagraphsOf(fnResult.chunks[i])
         IN \A k \in 1..(Len(ps) - 1) :
              Len(ps[k]) + Len(ps[k + 1]) <= fnArgs.maxChunkSize
    /\ (fnArgs.text = TwoLongParagraphs /\ fnArgs.maxChunkSize = DEFAULT_CHUNK_SIZE) =>
         /\ Len(fnResult.chunks) = 2
         /\ \A i \in 1..2 : fnResult.chunks[i].content = ScenarioParagraph

\* C22 witness: the document of two 500-character paragraphs was chunked with
\* maxChunkSize 600 into two chunks of one paragraph each
C22_Witness ==
  /\ fnResult.made
  /\ fnArgs.text = TwoLongParagraphs
  /\ fnArgs.maxChunkSize = DEFAULT_CHUNK_SIZE
  /\ Len(fnResult.chunks) = 2
  /\ Len(fnResult.chunks[1].content) = Len(ScenarioParagraph)

\* the text has a character that is not white space
NonBlank(text) == trim(text) # <<>>

\* C23: the empty text gives no chunk; a text that is not blank and has no
\* run of two or more newlines gives exactly one chunk, the trimmed text,
\* however long it is compared with maxChunkSize
C23_SingleParagraphIsOneChunk ==
  fnResult.made =>
    /\ fnArgs.text = <<>> => fnResult.chunks = <<>>
    /\ (NonBlank(fnArgs.text) /\ ~includes(fnArgs.text, ParagraphSeparator)) =>
         /\ Len(fnResult.chunks) = 1
         /\ fnResult.chunks[1].content = trim(fnArgs.text)

\* C23 witness: a text without a blank line, longer than maxChunkSize, came
\* back as one chunk
C23_Witness ==
  /\ fnResult.made
  /\ NonBlank(fnArgs.text)
  /\ ~includes(fnArgs.text, ParagraphSeparator)
  /\ includes(fnArgs.text, <<NL>>)
  /\ Len(trim(fnArgs.text)) > fnArgs.maxChunkSize + 1
  /\ Len(fnResult.chunks) = 1

\* currentPosition when the loop reaches the k-th raw paragraph: len + 2 for
\* every paragraph before it, the skipped ones included
RECURSIVE TrackedPosition(_, _)
TrackedPosition(paragraphs, k) ==
  IF k <= 1 THEN 0
  ELSE TrackedPosition(paragraphs, k - 1) + Len(paragraphs[k - 1]) + 2

\* the index, among the raw paragraphs, of the n-th one that is not blank
NthNonBlank(paragraphs, n) ==
  CHOOSE k \in DOMAIN paragraphs :
    /\ NonBlank(paragraphs[k])
    /\ Cardinality({j \in 1..k : NonBlank(paragraphs[j])}) = n

\* how many paragraphs the chunks before the i-th hold
RECURSIVE ParagraphsBefore(_, _)
ParagraphsBefore(chunks, i) ==
  IF i <= 1 THEN 0
  ELSE ParagraphsBefore(chunks, i - 1) + Len(ParagraphsOf(chunks[i - 1]))

\* the index, among the raw paragraphs of the text, of the first paragraph of
\* the i-th chunk
FirstParagraphOf(text, chunks, i) ==
  NthNonBlank(SplitParagraphs(text), ParagraphsBefore(chunks, i) + 1)

\* C24 (as claimed): the startChar of every chunk is the tracked position of
\* the first paragraph of the chunk
C24_StartCharIsTrackedPosition ==
  fnResult.made =>
    \A i \in DOMAIN fnResult.chunks :
      fnResult.chunks[i].startChar =
        TrackedPosition(SplitParagraphs(fnArgs.text),
                        FirstParagraphOf(fnArgs.text, fnResult.chunks, i))

\* C28: the offsets of the chunks are ordered and contiguous: the first chunk
\* starts at 0, no chunk ends before it starts, and every chunk ends where the
\* next one starts
C28_OffsetsContiguous ==
  fnResult.made =>
    LET chunks == fnResult.chunks
    IN /\ chunks # <<>> => chunks[1].startChar = 0
       /\ \A i \in DOMAIN chunks : chunks[i].startChar <= chunks[i].endChar
       /\ \A i \in 1..(Len(chunks) - 1) : chunks[i].endChar = chunks[i + 1].startChar

\* C28 witness: a text was cut into three chunks, each of them longer than 0
C28_Witness ==
  /\ fnResult.made
  /\ Len(fnResult.chunks) = 3
  /\ \A i \in 1..3 : fnResult.chunks[i].startChar < fnResult.chunks[i].endChar
  /\ fnResult.chunks[1].endChar = fnResult.chunks[2].startChar
  /\ fnResult.chunks[2].endChar = fnResult.chunks[3].startChar

----------------------------------------------------------------------------
(* The position bonus. *)

\* the part of what one pass of the loop over queryWords adds that is not
\* match points: the position bonus
BonusOfPass(chunkLower, word) ==
  KeywordScore(chunkLower, word) - CountMatches(chunkLower, word, 1) * 10

\* the bonus the passes for one keyword add up to
RECURSIVE BonusOfKeyword(_, _, _, _)
BonusOfKeyword(chunkLower, words, keyword, k) ==
  IF k > Len(words) THEN 0
  ELSE (IF words[k] = keyword THEN BonusOfPass(chunkLower, keyword) ELSE 0)
       + BonusOfKeyword(chunkLower, words, keyword, k + 1)

\* the match points of all passes
RECURSIVE MatchPoints(_, _, _)
MatchPoints(chunkLower, words, k) ==
  IF k > Len(words) THEN 0
  ELSE CountMatches(chunkLower, words[k], 1) * 10 + MatchPoints(chunkLower, words, k + 1)

\* the sum of f over the set S
RECURSIVE SumOver(_, _)
SumOver(S, f) ==
  IF S = {} THEN 0
  ELSE LET x == CHOOSE y \in S : TRUE
       IN f[x] + SumOver(S \ {x}, f)

\* C25 (as claimed): the score is the match points plus the bonus of each
\* keyword, and the bonus one keyword contributes is at most 5, however often
\* the keyword occurs in the chunk or is repeated in the query
C25_BonusOncePerKeyword ==
  fnResult.made =>
    LET chunkLower == toLowerCase(fnArgs.chunk)
        words == queryWords(fnArgs.query)
        bonus == [w \in Range(words) |-> BonusOfKeyword(chunkLower, words, w, 1)]
    IN /\ fnResult.score = MatchPoints(chunkLower, words, 1) + SumOver(Range(words), bonus)
       /\ \A w \in Range(words) : bonus[w] <= 5

----------------------------------------------------------------------------
(* The failsafe truncation and the reported token count. *)

\* context, totalTokens and selectedChunks of the latest call when its
\* selection loop has ended
AfterLoop == Selection(SortedCandidates, call.topK, AvailableTokens)

\* the test of the final safety check: totalTokens > availableTokens
FailsafeRan == AfterLoop.totalTokens > AvailableTokens

\* C26: the failsafe truncation runs only when the header alone exceeds the
\* budget, and then no chunk has been selected; when the header fits, the
\* selection loop leaves totalTokens within the budget; with the shipped
\* constants the failsafe does not run and the context is returned as built
C26_FailsafeOnlyForHeader ==
  (call.made /\ knowledgeBase # <<>>) =>
    LET after == AfterLoop
        failsafe == after.totalTokens > AvailableTokens
    IN /\ failsafe = FailsafeRan
       /\ failsafe =>
            /\ HeaderTokens > AvailableTokens
            /\ after.selectedChunks = <<>>
            /\ result.chunksUsed = 0
       /\ HeaderTokens <= AvailableTokens =>
            /\ after.totalTokens <= AvailableTokens
            /\ result.tokenCount = after.totalTokens
       /\ safeLimit = SAFE_CONTEXT_LIMIT =>
            /\ ~failsafe
            /\ result.context = after.context

\* C26 witness: with a budget below the header the failsafe ran, on a call
\* that had a candidate and a topK of at least 1, and no chunk was used
C26_Witness ==
  /\ call.made
  /\ FailsafeRan
  /\ AvailableTokens >= 0
  /\ Candidates # <<>>
  /\ call.topK >= 1
  /\ result.chunksUsed = 0
  /\ result.tokenCount = AvailableTokens

\* C27 (as claimed): where the failsafe did not run, the tokenCount of a
\* retrieval on a directory that holds a document is at least the estimate of
\* the tokens of the context it returns
C27_TokenCountCoversContext ==
  (call.made /\ knowledgeBase # <<>> /\ ~FailsafeRan) =>
    result.tokenCount >= estimateTokens(result.context)

----------------------------------------------------------------------------
(* The documents_count of a /chat-with-docs response. *)

\* C29 (as claimed): in a response with use_knowledge_base true,
\* documents_count is the number of documents the directory held when the
\* context of the response was retrieved, whatever uploads and deletes were
\* handled meanwhile
C29_DocumentsCountAsRetrieved ==
  \A r \in RequestIds :
    (requests[r].pc = "done" /\ requests[r].status = 200
       /\ requests[r].knowledge_base_used /\ requests[r].listed >= 1)
      => requests[r].documents_count = requests[r].listed

----------------------------------------------------------------------------
(* DELETE /examples/:index and its parameter. *)

\* the parameter is the decimal numeral of an integer, with or without sign
DenotesInteger(param) ==
  LET digits == IF param # <<>> /\ param[1] \in {"-", "+"} THEN Tail(param) ELSE param
  IN digits # <<>> /\ \A i \in DOMAIN digits : digits[i] \in DigitSet

\* the integer such a parameter denotes
IntegerOf(param) ==
  LET digits == IF param[1] \in {"-", "+"} THEN Tail(param) ELSE param
      magnitude == ReadDigits(digits, 1, 0)
  IN IF param[1] = "-" THEN 0 - magnitude ELSE magnitude

\* the list without its element at the (0-based) index
WithoutIndex(list, index) ==
  SubSeq(list, 1, index) \o SubSeq(list, index + 2, Len(list))

\* C30 (as claimed): a delete whose parameter denotes an integer in
\* 0..count-1 removes exactly the example at that index; a delete with any
\* other parameter (negative, too large, not a number) is answered 404 and
\* leaves the examples as they were
C30_DeleteExactlyOrNotFound ==
  [][\A param \in IndexParams :
       DeleteExample(param) =>
         IF DenotesInteger(param) /\ IntegerOf(param) \in 0..(Len(examples) - 1)
         THEN /\ examples' = WithoutIndex(examples, IntegerOf(param))
              /\ reply'.status = 200
         ELSE /\ reply'.status = 404
              /\ examples' = examples]_vars

=============================================================================
